---- MODULE Spec2Model ----
(***************************************************************************)
(* Vimshottari Dasha engine: the mansion locator (getNakshatraInfo), the   *)
(* period-tree builder (calculateTimeline, calculateSubDashas), the point  *)
(* query (getActiveDashaAt) and the API layer above them (getBirthProfile, *)
(* getCurrentDashaChain).                                                  *)
(*                                                                         *)
(* Every quantity the JavaScript source holds in a Number is held here as  *)
(* an IEEE-754 binary64 value and every +, -, *, /, % is the correctly     *)
(* rounded binary64 operation (round to nearest, ties to even), so that    *)
(* the accumulated sums and quotients of the source are reproduced bit for *)
(* bit.  A value is a record [s, m, e] standing for (-1)^s * m * 2^e with  *)
(* m odd (zero is [0, <<>>, 0]); m is a natural number written as a        *)
(* little-endian sequence of 15-bit limbs.  Exponent range is not          *)
(* modelled: no value of the model comes near overflow or underflow.  NaN  *)
(* and the infinities are not values of the model, and -0 is not told from *)
(* +0 (the source never divides by a zero or prints one).                  *)
(***************************************************************************)
EXTENDS Integers, Sequences, FiniteSets, TLC

(***************************************************************************)
(* Natural numbers of any size (limb sequences).                           *)
(***************************************************************************)
Base == 2^15
LimbBits == 15
Precision == 53

RECURSIVE BNorm(_)
BNorm(a) == IF a = <<>> THEN a ELSE IF a[Len(a)] = 0 THEN BNorm(SubSeq(a, 1, Len(a) - 1)) ELSE a

RECURSIVE BFromNat(_)
BFromNat(n) == IF n = 0 THEN <<>> ELSE <<n % Base>> \o BFromNat(n \div Base)

RECURSIVE BToNat(_)
BToNat(a) == IF a = <<>> THEN 0 ELSE Head(a) + Base * BToNat(Tail(a))

BHead(a) == IF a = <<>> THEN 0 ELSE Head(a)
BTail(a) == IF a = <<>> THEN a ELSE Tail(a)

\* a + b + c for a carry c in {0, 1}
RECURSIVE BAddC(_, _, _)
BAddC(a, b, c) ==
  IF a = <<>> /\ b = <<>> THEN (IF c = 0 THEN <<>> ELSE <<c>>)
  ELSE <<(BHead(a) + BHead(b) + c) % Base>>
         \o BAddC(BTail(a), BTail(b), (BHead(a) + BHead(b) + c) \div Base)

\* a - b - c for a >= b + c and a borrow c in {0, 1}; the result may end in zero limbs
RECURSIVE BSubC(_, _, _)
BSubC(a, b, c) ==
  IF a = <<>> THEN <<>>
  ELSE <<(Head(a) - BHead(b) - c) % Base>>
         \o BSubC(Tail(a), BTail(b), IF Head(a) - BHead(b) - c < 0 THEN 1 ELSE 0)

BSub(a, b) == BNorm(BSubC(a, b, 0))

\* the sign of a - b, comparing from limb i down
RECURSIVE BCmpAt(_, _, _)
BCmpAt(a, b, i) ==
  IF Len(a) # Len(b) THEN (IF Len(a) > Len(b) THEN 1 ELSE -1)
  ELSE IF i = 0 THEN 0
  ELSE IF a[i] # b[i] THEN (IF a[i] > b[i] THEN 1 ELSE -1)
  ELSE BCmpAt(a, b, i - 1)

BCmp(a, b) == BCmpAt(a, b, Len(a))

\* a * k + c for a limb k and a carry c
RECURSIVE BMulSmallC(_, _, _)
BMulSmallC(a, k, c) ==
  IF a = <<>> \/ k = 0 THEN (IF c = 0 THEN <<>> ELSE <<c>>)
  ELSE <<(Head(a) * k + c) % Base>> \o BMulSmallC(Tail(a), k, (Head(a) * k + c) \div Base)

\* a shifted up by n whole limbs
BShlLimbs(a, n) == IF a = <<>> THEN a ELSE [i \in 1..n |-> 0] \o a

RECURSIVE BMul(_, _)
BMul(a, b) ==
  IF a = <<>> \/ b = <<>> THEN <<>>
  ELSE BAddC(BMulSmallC(a, Head(b), 0), BShlLimbs(BMul(a, Tail(b)), 1), 0)

BShl(a, k) == BShlLimbs(BMulSmallC(a, 2^(k % LimbBits), 0), k \div LimbBits)

\* one step of the short division: the quotient limbs below limb i, then this one
BDivSmallStep(x, d, rest) == <<rest[1] \o <<x \div d>>, rest[2]>>

\* limbs 1..i of a, with r carried in from above, divided by the limb d:
\* <<quotient limbs, remainder>>
RECURSIVE BDivSmallAt(_, _, _, _)
BDivSmallAt(a, d, i, r) ==
  IF i = 0 THEN <<<<>>, r>>
  ELSE BDivSmallStep(r * Base + a[i], d, BDivSmallAt(a, d, i - 1, (r * Base + a[i]) % d))

BShrBits(top, r) == BNorm(BDivSmallAt(top, 2^r, Len(top), 0)[1])

BShr(a, k) ==
  IF k \div LimbBits >= Len(a) THEN <<>>
  ELSE BShrBits(SubSeq(a, (k \div LimbBits) + 1, Len(a)), k % LimbBits)

\* a mod 2^k
BLow(a, k) ==
  IF k \div LimbBits >= Len(a) THEN a
  ELSE BNorm(SubSeq(a, 1, k \div LimbBits) \o <<a[(k \div LimbBits) + 1] % (2^(k % LimbBits))>>)

\* bit k of a
BBit(a, k) == IF k \div LimbBits >= Len(a) THEN 0 ELSE (a[(k \div LimbBits) + 1] \div (2^(k % LimbBits))) % 2

BPow2(k) == [i \in 1..(k \div LimbBits) |-> 0] \o <<2^(k % LimbBits)>>

RECURSIVE BitLenAt(_, _, _)
BitLenAt(a, x, n) ==
  IF a = <<>> THEN 0
  ELSE IF x = 0 THEN LimbBits * (Len(a) - 1) + n
  ELSE BitLenAt(a, x \div 2, n + 1)

BitLen(a) == BitLenAt(a, IF a = <<>> THEN 0 ELSE a[Len(a)], 0)

\* the number of trailing zero bits of a # 0, counting from bit n of limb i + 1
RECURSIVE BTrailingZerosAt(_, _, _, _)
BTrailingZerosAt(a, i, x, n) ==
  IF x = 0 THEN BTrailingZerosAt(a, i + 1, a[i + 1], LimbBits * i)
  ELSE IF x % 2 = 1 THEN n
  ELSE BTrailingZerosAt(a, i, x \div 2, n + 1)

\* the largest g in lo..hi with d * g <= x
RECURSIVE BDigit(_, _, _, _)
BDigit(x, d, lo, hi) ==
  IF lo = hi THEN lo
  ELSE IF BCmp(BMulSmallC(d, (lo + hi + 1) \div 2, 0), x) <= 0
       THEN BDigit(x, d, (lo + hi + 1) \div 2, hi)
       ELSE BDigit(x, d, lo, ((lo + hi + 1) \div 2) - 1)

BDivDigit(q, x, d, g) ==
  <<IF g = 0 /\ q = <<>> THEN <<>> ELSE <<g>> \o q, BSub(x, BMulSmallC(d, g, 0))>>

BDivBring(q, x, d) == BDivDigit(q, x, d, BDigit(x, d, 0, Base - 1))

BDivStep(ai, d, prev) ==
  IF prev[2] = <<>> /\ ai = 0 THEN BDivBring(prev[1], <<>>, d)
  ELSE BDivBring(prev[1], <<ai>> \o prev[2], d)

\* limbs i..Len(a) of a divided by d: <<quotient, remainder>>
RECURSIVE BDivModAt(_, _, _)
BDivModAt(a, d, i) ==
  IF i > Len(a) THEN <<<<>>, <<>>>>
  ELSE BDivStep(a[i], d, BDivModAt(a, d, i + 1))

BDivModSmall(qr) == <<BNorm(qr[1]), IF qr[2] = 0 THEN <<>> ELSE <<qr[2]>>>>

BDivMod(a, d) ==
  IF Len(d) = 1 THEN BDivModSmall(BDivSmallAt(a, d[1], Len(a), 0)) ELSE BDivModAt(a, d, 1)

(***************************************************************************)
(* A Number is the record [s, m, e] that stands for (-1)^s * m * 2^e with  *)
(* m odd; zero is [s |-> 0, m |-> <<>>, e |-> 0].                          *)
(***************************************************************************)
Zero == [s |-> 0, m |-> <<>>, e |-> 0]

CanonAt(s, n, e, z) == [s |-> s, m |-> BShr(n, z), e |-> e + z]

Canon(s, n, e) == IF n = <<>> THEN Zero ELSE CanonAt(s, n, e, BTrailingZerosAt(n, 1, n[1], 0))

\* round to nearest, ties to even: the bits of n below bit k are dropped
RoundsUp(c, odd, sticky) == c > 0 \/ (c = 0 /\ (sticky \/ odd))

RoundAt(s, n, e, sticky, k) ==
  IF k <= 0 THEN Canon(s, n, e)
  ELSE Canon(s,
             BAddC(BShr(n, k), <<>>,
                   IF RoundsUp(BCmp(BLow(n, k), BPow2(k - 1)), BBit(n, k) = 1, sticky)
                   THEN 1 ELSE 0),
             e + k)

\* (-1)^s * n * 2^e, with sticky when the exact value lies just above it,
\* rounded to Precision bits
RoundF(s, n, e, sticky) == RoundAt(s, n, e, sticky, BitLen(n) - Precision)

RoundT(t) == RoundF(t[1], t[2], t[3], FALSE)

FromInt(i) == Canon(IF i < 0 THEN 1 ELSE 0, BFromNat(IF i < 0 THEN -i ELSE i), 0)

Neg(a) == IF a.m = <<>> THEN a ELSE [a EXCEPT !.s = 1 - a.s]

MinInt(i, j) == IF i < j THEN i ELSE j

SignedDiff(sa, sb, x, y, e, c) ==
  IF c >= 0 THEN <<sa, BSub(x, y), e>> ELSE <<sb, BSub(y, x), e>>

AlignedSum(sa, sb, x, y, e) ==
  IF sa = sb THEN <<sa, BAddC(x, y, 0), e>> ELSE SignedDiff(sa, sb, x, y, e, BCmp(x, y))

\* a + b exactly, as <<sign, magnitude, exponent>>
ExactSum(a, b) ==
  IF a.m = <<>> THEN <<b.s, b.m, b.e>>
  ELSE IF b.m = <<>> THEN <<a.s, a.m, a.e>>
  ELSE AlignedSum(a.s, b.s, BShl(a.m, a.e - MinInt(a.e, b.e)), BShl(b.m, b.e - MinInt(a.e, b.e)),
                  MinInt(a.e, b.e))

\* a + 0 and 0 + b are exact
Add(a, b) ==
  IF a.m = <<>> THEN b ELSE IF b.m = <<>> THEN a ELSE RoundT(ExactSum(a, b))
Sub(a, b) == Add(a, Neg(b))

SignOf(t) == IF t[2] = <<>> THEN 0 ELSE IF t[1] = 1 THEN -1 ELSE 1

Cmp(a, b) == SignOf(ExactSum(a, Neg(b)))
Lt(a, b) == Cmp(a, b) < 0
Le(a, b) == Cmp(a, b) <= 0
Ge(a, b) == Cmp(a, b) >= 0

Mul(a, b) ==
  IF a.m = <<>> \/ b.m = <<>> THEN Zero
  ELSE RoundF((a.s + b.s) % 2, BMul(a.m, b.m), a.e + b.e, FALSE)

DivRound(s, qr, e) == RoundF(s, qr[1], e, qr[2] # <<>>)

DivAt(a, b, sh) == DivRound((a.s + b.s) % 2, BDivMod(BShl(a.m, sh), b.m), a.e - b.e - sh)

\* the quotient is computed to Precision + 2 bits at least
DivShift(d) == IF d > 0 THEN d ELSE 0

Div(a, b) ==
  IF a.m = <<>> THEN Zero
  ELSE IF BitLen(b.m) + Precision + 2 > BitLen(a.m)
  THEN DivAt(a, b, DivShift(Precision + 2 + BitLen(b.m) - BitLen(a.m)))
  ELSE DivAt(a, b, 0)

RemAt(a, b, e) == Canon(a.s, BDivMod(BShl(a.m, a.e - e), BShl(b.m, b.e - e))[2], e)

\* JavaScript's %: exact, with the sign of the dividend
Rem(a, b) ==
  IF a.m = <<>> THEN Zero
  ELSE IF a.e < b.e THEN RemAt(a, b, a.e) ELSE RemAt(a, b, b.e)

FloorOf(a, t) == IF a.s = 0 THEN t ELSE IF a.e >= 0 THEN -t ELSE -t - 1

\* Math.floor, as an integer
Floor(a) == FloorOf(a, BToNat(IF a.e >= 0 THEN BShl(a.m, a.e) ELSE BShr(a.m, -a.e)))

\* the digits of a decimal literal, four to a group
RECURSIVE BFromGroups(_, _)
BFromGroups(g, acc) ==
  IF g = <<>> THEN acc
  ELSE BFromGroups(Tail(g), BAddC(BMulSmallC(acc, 10000, 0), <<Head(g)>>, 0))

RECURSIVE BPow10(_)
BPow10(k) == IF k = 0 THEN <<1>> ELSE BMulSmallC(BPow10(k - 1), 10, 0)

\* the Number a decimal literal denotes: groups / 10^scale correctly rounded
Dec(groups, scale) ==
  Div([s |-> 0, m |-> BNorm(BFromGroups(groups, <<>>)), e |-> 0],
      [s |-> 0, m |-> BPow10(scale), e |-> 0])

\* exact (unrounded) operations, for stating tolerances
XMul(a, b) == Canon((a.s + b.s) % 2, BMul(a.m, b.m), a.e + b.e)
XSumT(t) == Canon(t[1], t[2], t[3])
XAdd(a, b) == XSumT(ExactSum(a, b))
XSub(a, b) == XAdd(a, Neg(b))
Abs(a) == [a EXCEPT !.s = 0]

(***************************************************************************)
(* astro_core_engine.js                                                    *)
(***************************************************************************)
SIDEREAL_YEAR == Dec(<<3652, 5636, 3004>>, 9)

\* the outcome of a call: the value it returns or the error it throws
Returned(v) == [ok |-> TRUE, value |-> v]
Thrown(msg) == [ok |-> FALSE, error |-> msg]

\* if (n < 0) n += 360
wrapNegative(n) == IF Lt(n, Zero) THEN Add(n, FromInt(360)) ELSE n

\* AstroUtils.normalize360: let n = angle % 360
normalize360(angle) == wrapNegative(Rem(angle, FromInt(360)))

\* const A = Math.floor(utYear / 100)
centuryA(utYear) == Floor(Div(FromInt(utYear), FromInt(100)))

\* const B = 2 - A + Math.floor(A / 4)
centuryB(A) == 2 - A + Floor(Div(FromInt(A), FromInt(4)))

\* const dayFraction = (utHour + minute / 60 + second / 3600) / 24
dayFractionOf(utHour, minute, second) ==
  Div(Add(Add(utHour, Div(FromInt(minute), FromInt(60))),
          Div(FromInt(second), FromInt(3600))),
      FromInt(24))

\* Math.floor(365.25 * (utYear + 4716)) + Math.floor(30.6001 * (utMonth + 1))
\*   + (utDay + dayFraction) + B - 1524.5
meeusJD(utYear, utMonth, utDay, dayFraction, B) ==
  Sub(Add(Add(FromInt(Floor(Mul(Dec(<<3, 6525>>, 2), FromInt(utYear + 4716)))
                      + Floor(Mul(Dec(<<30, 6001>>, 4), FromInt(utMonth + 1)))),
              Add(FromInt(utDay), dayFraction)),
          FromInt(B)),
      Dec(<<1, 5245>>, 1))

\* if (utMonth <= 2) { utYear -= 1; utMonth += 12 }
utYearOf(year, month) == IF month <= 2 THEN year - 1 ELSE year
utMonthOf(month) == IF month <= 2 THEN month + 12 ELSE month

\* the hour adjustment of getJulianDay: -1 on underflow, 1 on overflow
hourCarry(utHour) == IF Lt(utHour, Zero) THEN -1 ELSE IF Ge(utHour, FromInt(24)) THEN 1 ELSE 0

\* utHour += 24 on underflow, utHour -= 24 on overflow
adjustedHour(utHour, carry) ==
  IF carry = -1 THEN Add(utHour, FromInt(24))
  ELSE IF carry = 1 THEN Sub(utHour, FromInt(24))
  ELSE utHour

\* getJulianDay from the adjustment of utHour = hour - timezoneOffset on;
\* utDay is day + carry
julianDayAt(year, month, day, utHour, carry, minute, second) ==
  meeusJD(utYearOf(year, month), utMonthOf(month), day + carry,
          dayFractionOf(adjustedHour(utHour, carry), minute, second),
          centuryB(centuryA(utYearOf(year, month))))

julianDayOf(year, month, day, utHour, minute, second) ==
  julianDayAt(year, month, day, utHour, hourCarry(utHour), minute, second)

\* TimeEngine.getJulianDay; the calendar fields are integers, the zone offset a Number
getJulianDay(year, month, day, hour, minute, second, timezoneOffset) ==
  julianDayOf(year, month, day, Sub(FromInt(hour), timezoneOffset), minute, second)

\* AstroValidator.validateDateTime: the message thrown, or "ok"
validateDateTime(year, month, day, hour, minute, second) ==
  IF month < 1 \/ month > 12 THEN "Invalid Month"
  ELSE IF day < 1 \/ day > 31 THEN "Invalid Day"
  ELSE IF hour < 0 \/ hour > 23 THEN "Invalid Hour"
  ELSE IF minute < 0 \/ minute > 59 THEN "Invalid Minute"
  ELSE IF second < 0 \/ second > 59 THEN "Invalid Second"
  ELSE "ok"

(***************************************************************************)
(* lunar_ephemeris_engine.js: the mansion table and the mansion locator    *)
(***************************************************************************)
NAKSHATRA_DATA ==
  << [id |-> 1,  name |-> "Ashwini",           lord |-> "Ketu",    years |-> 7],
     [id |-> 2,  name |-> "Bharani",           lord |-> "Venus",   years |-> 20],
     [id |-> 3,  name |-> "Krittika",          lord |-> "Sun",     years |-> 6],
     [id |-> 4,  name |-> "Rohini",            lord |-> "Moon",    years |-> 10],
     [id |-> 5,  name |-> "Mrigashira",        lord |-> "Mars",    years |-> 7],
     [id |-> 6,  name |-> "Ardra",             lord |-> "Rahu",    years |-> 18],
     [id |-> 7,  name |-> "Punarvasu",         lord |-> "Jupiter", years |-> 16],
     [id |-> 8,  name |-> "Pushya",            lord |-> "Saturn",  years |-> 19],
     [id |-> 9,  name |-> "Ashlesha",          lord |-> "Mercury", years |-> 17],
     [id |-> 10, name |-> "Magha",             lord |-> "Ketu",    years |-> 7],
     [id |-> 11, name |-> "Purva Phalguni",    lord |-> "Venus",   years |-> 20],
     [id |-> 12, name |-> "Uttara Phalguni",   lord |-> "Sun",     years |-> 6],
     [id |-> 13, name |-> "Hasta",             lord |-> "Moon",    years |-> 10],
     [id |-> 14, name |-> "Chitra",            lord |-> "Mars",    years |-> 7],
     [id |-> 15, name |-> "Swati",             lord |-> "Rahu",    years |-> 18],
     [id |-> 16, name |-> "Vishakha",          lord |-> "Jupiter", years |-> 16],
     [id |-> 17, name |-> "Anuradha",          lord |-> "Saturn",  years |-> 19],
     [id |-> 18, name |-> "Jyeshtha",          lord |-> "Mercury", years |-> 17],
     [id |-> 19, name |-> "Mula",              lord |-> "Ketu",    years |-> 7],
     [id |-> 20, name |-> "Purva Ashadha",     lord |-> "Venus",   years |-> 20],
     [id |-> 21, name |-> "Uttara Ashadha",    lord |-> "Sun",     years |-> 6],
     [id |-> 22, name |-> "Shravana",          lord |-> "Moon",    years |-> 10],
     [id |-> 23, name |-> "Dhanishta",         lord |-> "Mars",    years |-> 7],
     [id |-> 24, name |-> "Shatabhisha",       lord |-> "Rahu",    years |-> 18],
     [id |-> 25, name |-> "Purva Bhadrapada",  lord |-> "Jupiter", years |-> 16],
     [id |-> 26, name |-> "Uttara Bhadrapada", lord |-> "Saturn",  years |-> 19],
     [id |-> 27, name |-> "Revati",            lord |-> "Mercury", years |-> 17] >>

\* array[i] for a 0-based index is an element of the array, not undefined
InArray(array, i) == i >= 0 /\ i < Len(array)

\* const arcPerNakshatra = 360 / 27
arcPerNakshatra == Div(FromInt(360), FromInt(27))

\* const nakshatraIndex = Math.floor(normalizedLong / arcPerNakshatra)
nakshatraIndex(normalizedLong) == Floor(Div(normalizedLong, arcPerNakshatra))

\* const elapsedInNakshatra = normalizedLong % arcPerNakshatra
elapsedInNakshatra(normalizedLong) == Rem(normalizedLong, arcPerNakshatra)

\* const percentageElapsed = elapsedInNakshatra / arcPerNakshatra
percentageElapsed(elapsed) == Div(elapsed, arcPerNakshatra)

\* const pada = Math.floor((elapsedInNakshatra / arcPerNakshatra) * 4) + 1
padaOf(elapsed) == Floor(Mul(Div(elapsed, arcPerNakshatra), FromInt(4))) + 1

\* remainingPercentage: 1 - percentageElapsed
remainingOf(elapsedPercentage) == Sub(FromInt(1), elapsedPercentage)

\* the object getNakshatraInfo returns
nakshatraObject(index, nakshatra, elapsedPercentage, pada) ==
  [index               |-> index,
   name                |-> nakshatra.name,
   lord                |-> nakshatra.lord,
   totalYears          |-> nakshatra.years,
   elapsedPercentage   |-> elapsedPercentage,
   remainingPercentage |-> remainingOf(elapsedPercentage),
   pada                |-> pada]

\* reading nakshatra.name of an undefined element throws a TypeError
nakshatraAt(index, elapsed) ==
  IF ~InArray(NAKSHATRA_DATA, index) THEN Thrown("TypeError")
  ELSE Returned(nakshatraObject(index, NAKSHATRA_DATA[index + 1],
                                percentageElapsed(elapsed), padaOf(elapsed)))

nakshatraOf(normalizedLong) ==
  nakshatraAt(nakshatraIndex(normalizedLong), elapsedInNakshatra(normalizedLong))

\* NakshatraEngine.getNakshatraInfo
getNakshatraInfo(siderealLongitude) == nakshatraOf(normalize360(siderealLongitude))

(***************************************************************************)
(* LunarEngine.getSiderealLongitude.  The periodic series (22 sine terms   *)
(* and the two planetary terms) and the ayanamsa polynomial are evaluated  *)
(* outside the model; the function is held as its table of values at the   *)
(* birth instants the model uses: 1985-10-25 09:00 UT (ProductionSuite)    *)
(* and 28 successive days from 1990-01-01 00:00 UT (DashaValidator), which *)
(* take the Moon once round the zodiac, through all 27 mansions.           *)
(***************************************************************************)
MoonRows ==
  << \* 2446363.875 -> 331.19061204014463
     <<<<24, 4636, 3875>>, 3, <<3, 3119, 612, 401, 4463>>, 14>>,
     \* 2447892.5 -> 302.70332175307885
     <<<<2447, 8925>>, 1, <<3, 270, 3321, 7530, 7885>>, 14>>,
     \* 2447893.5 -> 316.16976991680315
     <<<<2447, 8935>>, 1, <<3, 1616, 9769, 9168, 315>>, 14>>,
     \* 2447894.5 -> 329.8383862977771
     <<<<2447, 8945>>, 1, <<3298, 3838, 6297, 7771>>, 13>>,
     \* 2447895.5 -> 343.7154447195927
     <<<<2447, 8955>>, 1, <<3437, 1544, 4719, 5927>>, 13>>,
     \* 2447896.5 -> 357.79770593743405
     <<<<2447, 8965>>, 1, <<3, 5779, 7705, 9374, 3405>>, 14>>,
     \* 2447897.5 -> 12.064390403125717
     <<<<2447, 8975>>, 1, <<1, 2064, 3904, 312, 5717>>, 15>>,
     \* 2447898.5 -> 26.471688884946413
     <<<<2447, 8985>>, 1, <<2, 6471, 6888, 8494, 6413>>, 15>>,
     \* 2447899.5 -> 40.95197571840768
     <<<<2447, 8995>>, 1, <<4095, 1975, 7184, 768>>, 14>>,
     \* 2447900.5 -> 55.41857245053384
     <<<<2447, 9005>>, 1, <<5541, 8572, 4505, 3384>>, 14>>,
     \* 2447901.5 -> 69.7753005408088
     <<<<2447, 9015>>, 1, <<697, 7530, 540, 8088>>, 13>>,
     \* 2447902.5 -> 83.92871277428155
     <<<<2447, 9025>>, 1, <<8392, 8712, 7742, 8155>>, 14>>,
     \* 2447903.5 -> 97.80024101279619
     <<<<2447, 9035>>, 1, <<9780, 241, 127, 9619>>, 14>>,
     \* 2447904.5 -> 111.33570848723946
     <<<<2447, 9045>>, 1, <<1, 1133, 5708, 4872, 3946>>, 14>>,
     \* 2447905.5 -> 124.51058028182129
     <<<<2447, 9055>>, 1, <<1, 2451, 580, 2818, 2129>>, 14>>,
     \* 2447906.5 -> 137.33058545944226
     <<<<2447, 9065>>, 1, <<1, 3733, 585, 4594, 4226>>, 14>>,
     \* 2447907.5 -> 149.82848731519093
     <<<<2447, 9075>>, 1, <<1, 4982, 8487, 3151, 9093>>, 14>>,
     \* 2447908.5 -> 162.0584561512141
     <<<<2447, 9085>>, 1, <<1620, 5845, 6151, 2141>>, 13>>,
     \* 2447909.5 -> 174.08958166991238
     <<<<2447, 9095>>, 1, <<1, 7408, 9581, 6699, 1238>>, 14>>,
     \* 2447910.5 -> 185.99965618005396
     <<<<2447, 9105>>, 1, <<1, 8599, 9656, 1800, 5396>>, 14>>,
     \* 2447911.5 -> 197.86973314055794
     <<<<2447, 9115>>, 1, <<1, 9786, 9733, 1405, 5794>>, 14>>,
     \* 2447912.5 -> 209.77941865578595
     <<<<2447, 9125>>, 1, <<2, 977, 9418, 6557, 8595>>, 14>>,
     \* 2447913.5 -> 221.80259551620532
     <<<<2447, 9135>>, 1, <<2, 2180, 2595, 5162, 532>>, 14>>,
     \* 2447914.5 -> 234.00335754895536
     <<<<2447, 9145>>, 1, <<2, 3400, 3357, 5489, 5536>>, 14>>,
     \* 2447915.5 -> 246.43223668082507
     <<<<2447, 9155>>, 1, <<2, 4643, 2236, 6808, 2507>>, 14>>,
     \* 2447916.5 -> 259.1231379212229
     <<<<2447, 9165>>, 1, <<2591, 2313, 7921, 2229>>, 13>>,
     \* 2447917.5 -> 272.0915675813092
     <<<<2447, 9175>>, 1, <<2720, 9156, 7581, 3092>>, 13>>,
     \* 2447918.5 -> 285.3346449728131
     <<<<2447, 9185>>, 1, <<2853, 3464, 4972, 8131>>, 13>>,
     \* 2447919.5 -> 298.8330484279356
     <<<<2447, 9195>>, 1, <<2988, 3304, 8427, 9356>>, 13>> >>

MoonTable ==
  [i \in DOMAIN MoonRows |->
     <<Dec(MoonRows[i][1], MoonRows[i][2]), Dec(MoonRows[i][3], MoonRows[i][4])>>]

\* the birth instants of the table
BirthJDs == {MoonTable[i][1] : i \in DOMAIN MoonRows}

getSiderealLongitude(jd) ==
  (CHOOSE row \in {MoonTable[i] : i \in DOMAIN MoonRows} : row[1] = jd)[2]

(***************************************************************************)
(* lunar_ephemeris_engine.js (dasha_engine.js): the period tree            *)
(***************************************************************************)
\* fault: Saturn is given 18 years, one short
DASHA_SEQUENCE_SaturnShort ==
  << [lord |-> "Ketu",    years |-> 7],
     [lord |-> "Venus",   years |-> 20],
     [lord |-> "Sun",     years |-> 6],
     [lord |-> "Moon",    years |-> 10],
     [lord |-> "Mars",    years |-> 7],
     [lord |-> "Rahu",    years |-> 18],
     [lord |-> "Jupiter", years |-> 16],
     [lord |-> "Saturn",  years |-> 18],
     [lord |-> "Mercury", years |-> 17] >>

\* const DASHA_SEQUENCE
DASHA_SEQUENCE ==
  << [lord |-> "Ketu",    years |-> 7],
     [lord |-> "Venus",   years |-> 20],
     [lord |-> "Sun",     years |-> 6],
     [lord |-> "Moon",    years |-> 10],
     [lord |-> "Mars",    years |-> 7],
     [lord |-> "Rahu",    years |-> 18],
     [lord |-> "Jupiter", years |-> 16],
     [lord |-> "Saturn",  years |-> 19],
     [lord |-> "Mercury", years |-> 17] >>

\* DASHA_SEQUENCE.findIndex(d => d.lord === lord): 0-based, -1 when absent
findIndex(lord) ==
  IF \E i \in 1..Len(DASHA_SEQUENCE) : DASHA_SEQUENCE[i].lord = lord
  THEN (CHOOSE i \in 1..Len(DASHA_SEQUENCE) :
          /\ DASHA_SEQUENCE[i].lord = lord
          /\ \A j \in 1..(i - 1) : DASHA_SEQUENCE[j].lord # lord) - 1
  ELSE -1

\* fault: the modulus of mathematics, which is never negative
JsModFloored(a, b) == a % b

\* JavaScript's % on integers: the sign of the dividend
JsMod(a, b) == IF a >= 0 THEN a % b ELSE -((-a) % b)

\* DASHA_SEQUENCE[sequenceIndex]
planetAt(sequenceIndex) == DASHA_SEQUENCE[sequenceIndex + 1]

\* fault: the share is taken of 100 years, not of the 120 of the cycle
subDurationOfHundred(parentDuration, years) ==
  Div(Mul(parentDuration, FromInt(years)), FromInt(100))

\* const subDuration = (parentDuration * planet.years) / 120.0
subDurationOf(parentDuration, years) ==
  Div(Mul(parentDuration, FromInt(years)), FromInt(120))

\* const currentSubEnd = currentSubStart + subDuration
subEndOf(currentSubStart, subDuration) == Add(currentSubStart, subDuration)

\* currentSubStart = currentSubEnd, the start of the next sibling
nextSubStart(currentSubStart, currentSubEnd) == currentSubEnd

\* fault: the nodes are given the level below their own
subLevelOfNext(currentLevel) == currentLevel + 1

\* level: currentLevel of the nodes calculateSubDashas builds
subLevelOf(currentLevel) == currentLevel

\* fault: the recursion goes one level below maxLevels
recursesAtMaxLevel(currentLevel, maxLevels) == currentLevel <= maxLevels

\* if (currentLevel < maxLevels), the recursion for the next level down
recurses(currentLevel, maxLevels) == currentLevel < maxLevels

RECURSIVE calculateSubDashas(_, _, _, _, _)
RECURSIVE subDashaLoop(_, _, _, _, _, _)

\* the node of calculateSubDashas, with the recursion for the next level down
subDashaNode(sequenceIndex, currentSubStart, currentSubEnd, subDuration, currentLevel, maxLevels) ==
  [level        |-> subLevelOf(currentLevel),
   lord         |-> planetAt(sequenceIndex).lord,
   startJD      |-> currentSubStart,
   endJD        |-> currentSubEnd,
   durationDays |-> subDuration,
   subDashas    |-> IF recurses(currentLevel, maxLevels)
                    THEN calculateSubDashas(currentSubStart, currentSubEnd,
                                            currentLevel + 1, maxLevels, sequenceIndex)
                    ELSE <<>>]

\* subTimeline.push(node); currentSubStart = currentSubEnd; and the iterations after i
subDashaPush(i, currentSubStart, currentSubEnd, subDuration, parentDuration, currentLevel, maxLevels, parentSeqIndex) ==
  <<subDashaNode(JsMod(parentSeqIndex + i, 9), currentSubStart, currentSubEnd,
                 subDuration, currentLevel, maxLevels)>>
    \o subDashaLoop(i + 1, nextSubStart(currentSubStart, currentSubEnd), parentDuration,
                    currentLevel, maxLevels, parentSeqIndex)

subDashaPlace(i, currentSubStart, subDuration, parentDuration, currentLevel, maxLevels, parentSeqIndex) ==
  subDashaPush(i, currentSubStart, subEndOf(currentSubStart, subDuration), subDuration,
               parentDuration, currentLevel, maxLevels, parentSeqIndex)

\* the for loop of calculateSubDashas from iteration i on
subDashaLoop(i, currentSubStart, parentDuration, currentLevel, maxLevels, parentSeqIndex) ==
  IF i >= 9 THEN <<>>
  ELSE subDashaPlace(i, currentSubStart,
                     subDurationOf(parentDuration,
                                   planetAt(JsMod(parentSeqIndex + i, 9)).years),
                     parentDuration, currentLevel, maxLevels, parentSeqIndex)

\* DashaEngine.calculateSubDashas: const parentDuration = parentEnd - parentStart
calculateSubDashas(parentStart, parentEnd, currentLevel, maxLevels, parentSeqIndex) ==
  subDashaLoop(0, parentStart, Sub(parentEnd, parentStart), currentLevel, maxLevels,
               parentSeqIndex)

\* const totalFirstMDDays = nakshatraInfo.totalYears * SIDEREAL_YEAR
totalFirstMDDaysOf(nakshatraInfo) == Mul(FromInt(nakshatraInfo.totalYears), SIDEREAL_YEAR)

\* fault: the balance is taken from the fraction already elapsed
remainingMDDaysOfElapsed(nakshatraInfo) ==
  Mul(Mul(FromInt(nakshatraInfo.totalYears), SIDEREAL_YEAR), nakshatraInfo.elapsedPercentage)

\* const remainingMDDays = totalFirstMDDays * nakshatraInfo.remainingPercentage
remainingMDDaysOf(nakshatraInfo) ==
  Mul(totalFirstMDDaysOf(nakshatraInfo), nakshatraInfo.remainingPercentage)

\* const durationDays = planet.years * SIDEREAL_YEAR
durationDaysOf(planet) == Mul(FromInt(planet.years), SIDEREAL_YEAR)

\* fault: the cycle is entered one lord late
sequenceIndexOfNext(startIndex, i) == JsMod(startIndex + i + 1, 9)

\* const sequenceIndex = (startIndex + i) % 9
sequenceIndexOf(startIndex, i) == JsMod(startIndex + i, 9)

\* fault: the first period is not cut at birth
effectiveStartOfPeriod(i, jd, currentStartJD) == currentStartJD

\* const effectiveStart = (i === 0) ? jd : currentStartJD
effectiveStartOf(i, jd, currentStartJD) == IF i = 0 THEN jd ELSE currentStartJD

\* const effectiveEnd = (i === 0) ? currentEndJD : currentStartJD + durationDays
effectiveEndOf(i, currentEndJD, currentStartJD, durationDays) ==
  IF i = 0 THEN currentEndJD ELSE Add(currentStartJD, durationDays)

\* dashaNode, with the recursive call for the sub-levels
dashaNode(sequenceIndex, effectiveStart, effectiveEnd, maxLevels) ==
  [level        |-> 1,
   lord         |-> planetAt(sequenceIndex).lord,
   startJD      |-> effectiveStart,
   endJD        |-> effectiveEnd,
   durationDays |-> Sub(effectiveEnd, effectiveStart),
   subDashas    |-> IF maxLevels > 1
                    THEN calculateSubDashas(effectiveStart, effectiveEnd, 2, maxLevels,
                                            sequenceIndex)
                    ELSE <<>>]

RECURSIVE timelineLoop(_, _, _, _, _, _)

\* timeline.push(dashaNode); currentStartJD = effectiveEnd; and the iterations after i
timelinePush(i, effectiveStart, effectiveEnd, currentEndJD, jd, maxLevels, startIndex) ==
  <<dashaNode(sequenceIndexOf(startIndex, i), effectiveStart, effectiveEnd, maxLevels)>>
    \o timelineLoop(i + 1, effectiveEnd, currentEndJD, jd, maxLevels, startIndex)

\* the for loop of calculateTimeline from iteration i on
timelineLoop(i, currentStartJD, currentEndJD, jd, maxLevels, startIndex) ==
  IF i >= 9 THEN <<>>
  ELSE timelinePush(i, effectiveStartOf(i, jd, currentStartJD),
                    effectiveEndOf(i, currentEndJD, currentStartJD,
                                   durationDaysOf(planetAt(sequenceIndexOf(startIndex, i)))),
                    currentEndJD, jd, maxLevels, startIndex)

\* let currentStartJD = currentEndJD - totalFirstMDDays, the loop and the return
timelineFrom(jd, maxLevels, nakshatraInfo, startIndex, currentEndJD) ==
  Returned([birthJD   |-> jd,
            nakshatra |-> nakshatraInfo,
            timeline  |-> timelineLoop(0, Sub(currentEndJD, totalFirstMDDaysOf(nakshatraInfo)),
                                       currentEndJD, jd, maxLevels, startIndex)])

\* const planet = DASHA_SEQUENCE[sequenceIndex] is undefined in some iteration
\* of the loop, and reading planet.years then throws a TypeError
planetUndefined(startIndex) ==
  \E i \in 0..8 : ~InArray(DASHA_SEQUENCE, sequenceIndexOf(startIndex, i))

\* const startIndex = DASHA_SEQUENCE.findIndex(...);
\* let currentEndJD = jd + remainingMDDays
timelineFor(jd, maxLevels, nakshatraInfo) ==
  IF planetUndefined(findIndex(nakshatraInfo.lord)) THEN Thrown("TypeError")
  ELSE timelineFrom(jd, maxLevels, nakshatraInfo, findIndex(nakshatraInfo.lord),
                    Add(jd, remainingMDDaysOf(nakshatraInfo)))

\* an error thrown by getNakshatraInfo leaves calculateTimeline as it is
timelineOf(jd, maxLevels, nakshatraCall) ==
  IF ~nakshatraCall.ok THEN nakshatraCall
  ELSE timelineFor(jd, maxLevels, nakshatraCall.value)

\* DashaEngine.calculateTimeline
calculateTimeline(jd, maxLevels) ==
  timelineOf(jd, maxLevels, getNakshatraInfo(getSiderealLongitude(jd)))

\* fault: the end of a period is taken as part of it
isActiveInclusive(node, targetJD) == Ge(targetJD, node.startJD) /\ Le(targetJD, node.endJD)

\* targetJD >= node.startJD && targetJD < node.endJD
isActive(node, targetJD) == Ge(targetJD, node.startJD) /\ Lt(targetJD, node.endJD)

\* currentSearchLayer.find(...): the 1-based position of the first node from
\* position i on that is active, 0 when there is none
RECURSIVE findActive(_, _, _)
findActive(layer, targetJD, i) ==
  IF i > Len(layer) THEN 0
  ELSE IF isActive(layer[i], targetJD) THEN i
  ELSE findActive(layer, targetJD, i + 1)

RECURSIVE activeLoop(_, _, _)

\* if (activeNode) { activeChain.push(...); currentSearchLayer = activeNode.subDashas }
\* else break
activeStep(currentSearchLayer, targetJD, activeChain, k) ==
  IF k = 0 THEN activeChain
  ELSE activeLoop(currentSearchLayer[k].subDashas, targetJD,
                  Append(activeChain, [level   |-> currentSearchLayer[k].level,
                                       lord    |-> currentSearchLayer[k].lord,
                                       startJD |-> currentSearchLayer[k].startJD,
                                       endJD   |-> currentSearchLayer[k].endJD]))

\* the while loop of getActiveDashaAt
activeLoop(currentSearchLayer, targetJD, activeChain) ==
  IF Len(currentSearchLayer) = 0 THEN activeChain
  ELSE activeStep(currentSearchLayer, targetJD, activeChain,
                  findActive(currentSearchLayer, targetJD, 1))

\* DashaEngine.getActiveDashaAt: results.timeline is undefined when the object
\* has no such property, and the loop is then not entered
getActiveDashaAt(results, targetJD) ==
  IF "timeline" \in DOMAIN results
  THEN activeLoop(results.timeline, targetJD, <<>>)
  ELSE <<>>

(***************************************************************************)
(* vedic_astro_api.js.  Of the profile getBirthProfile returns, the model  *)
(* keeps the properties a later call can read: input.julianDay, the        *)
(* astronomy block and dashaTimeline (metadata, deltaT and the ayanamsa    *)
(* value are outputs nothing reads back).                                  *)
(***************************************************************************)
profileObject(jd, moonSidereal, nakshatra, dashaResults) ==
  [input     |-> [julianDay |-> jd],
   astronomy |-> [moonSiderealLongitude |-> moonSidereal,
                  moonNakshatra |-> nakshatra.name,
                  moonPada      |-> nakshatra.pada,
                  moonLord      |-> nakshatra.lord],
   dashaTimeline |-> dashaResults.timeline]

\* an error thrown by either engine leaves getBirthProfile as it is
profileWith(jd, moonSidereal, nakshatraCall, dashaCall) ==
  IF ~nakshatraCall.ok THEN nakshatraCall
  ELSE IF ~dashaCall.ok THEN dashaCall
  ELSE Returned(profileObject(jd, moonSidereal, nakshatraCall.value, dashaCall.value))

profileAt(jd, depth, moonSidereal) ==
  profileWith(jd, moonSidereal, getNakshatraInfo(moonSidereal), calculateTimeline(jd, depth))

profileFor(jd, depth) == profileAt(jd, depth, getSiderealLongitude(jd))

\* VedicAstroAPI.getBirthProfile
getBirthProfile(birthData, depth) ==
  IF validateDateTime(birthData.year, birthData.month, birthData.day,
                      birthData.hour, birthData.min, birthData.sec) # "ok"
  THEN Thrown(validateDateTime(birthData.year, birthData.month, birthData.day,
                               birthData.hour, birthData.min, birthData.sec))
  ELSE profileFor(getJulianDay(birthData.year, birthData.month, birthData.day,
                               birthData.hour, birthData.min, birthData.sec,
                               birthData.tzone),
                  depth)

\* a destructured property with its default
OrDefault(object, property, default) ==
  IF property \in DOMAIN object THEN object[property] ELSE default

\* const targetJD = TimeEngine.getJulianDay(...); the target dates of the model
\* all carry year, month and day, so the fall-back to the current date is
\* never taken
targetJDOf(targetDate) ==
  getJulianDay(targetDate.year, targetDate.month, targetDate.day,
               OrDefault(targetDate, "hour", 12), OrDefault(targetDate, "min", 0),
               OrDefault(targetDate, "sec", 0), OrDefault(targetDate, "tzone", Zero))

\* VedicAstroAPI.getCurrentDashaChain
getCurrentDashaChain(birthProfile, targetDate) ==
  getActiveDashaAt(birthProfile, targetJDOf(targetDate))

(***************************************************************************)
(* The inputs of the model.                                                *)
(***************************************************************************)
MaxDepth == 2

Depths == 0..MaxDepth

\* sidereal longitudes given to getNakshatraInfo directly
Longitudes ==
  { Zero, FromInt(40), FromInt(360), FromInt(400), FromInt(720), FromInt(-360),
    FromInt(-1), Dec(<<1234, 5600>>, 5), Dec(<<46, 6666, 6666, 6666, 6664>>, 15),
    Dec(<<35, 9999, 9999, 9999, 9994>>, 14), Neg(Dec(<<135>>, 1)),
    Dec(<<1>>, 20), Neg(Dec(<<1>>, 20)) }

\* ProductionSuite.run, DashaValidator.test, and a date the validator rejects
BirthData ==
  { [year |-> 1985, month |-> 10, day |-> 25, hour |-> 14, min |-> 30, sec |-> 0,
     tzone |-> Dec(<<55>>, 1)],
    [year |-> 1990, month |-> 1, day |-> 1, hour |-> 0, min |-> 0, sec |-> 0,
     tzone |-> Zero],
    [year |-> 1990, month |-> 13, day |-> 1, hour |-> 0, min |-> 0, sec |-> 0,
     tzone |-> Zero] }

\* ProductionSuite.run's "now", DashaValidator.test's target, a date before
\* either birth and one after the end of either timeline
TargetDates ==
  { [year |-> 2024, month |-> 5, day |-> 20],
    [year |-> 2026, month |-> 2, day |-> 25, hour |-> 12, min |-> 0, sec |-> 0,
     tzone |-> Zero],
    [year |-> 1980, month |-> 1, day |-> 1],
    [year |-> 2120, month |-> 1, day |-> 1] }

TargetDateJDs == {targetJDOf(d) : d \in TargetDates}

\* the positions of the nodes of a layer that have children
Parents(layer) == {i \in 1..Len(layer) : Len(layer[i].subDashas) > 0}

\* instants asked of a built timeline: a day before birth, every top-level
\* boundary, the ends of the first and last child of every top-level node and
\* the start of the last child, a day after the end, and the target dates
ProbeJDs(r) ==
  {Sub(r.birthJD, FromInt(1)), Add(r.timeline[Len(r.timeline)].endJD, FromInt(1))}
    \cup {r.timeline[i].startJD : i \in 1..Len(r.timeline)}
    \cup {r.timeline[i].endJD : i \in 1..Len(r.timeline)}
    \cup {r.timeline[i].subDashas[1].endJD : i \in Parents(r.timeline)}
    \cup {r.timeline[i].subDashas[Len(r.timeline[i].subDashas)].endJD :
            i \in Parents(r.timeline)}
    \cup {r.timeline[i].subDashas[Len(r.timeline[i].subDashas)].startJD :
            i \in Parents(r.timeline)}
    \cup TargetDateJDs

(***************************************************************************)
(* The state: the last call made, what it was given, and what each entry   *)
(* point last handed to the caller (<<>> when it has handed over nothing,  *)
(* <<v>> when it returned v); subTimeline is what a direct call of         *)
(* calculateSubDashas returned; error is the message of the error the last *)
(* call threw, "none" when it returned.                                    *)
(***************************************************************************)
VARIABLES op, input, results, profile, nakshatra, chain, subTimeline, error

vars == <<op, input, results, profile, nakshatra, chain, subTimeline, error>>

None == <<>>
Some(v) == <<v>>

ValueOf(call) == IF call.ok THEN Some(call.value) ELSE None
ErrorOf(call) == IF call.ok THEN "none" ELSE call.error

Init ==
  /\ op = "start"
  /\ input = <<>>
  /\ results = None
  /\ profile = None
  /\ nakshatra = None
  /\ chain = None
  /\ subTimeline = None
  /\ error = "none"

\* the caller of getNakshatraInfo receives the object or the error
NakshatraCall(call) == nakshatra' = ValueOf(call) /\ error' = ErrorOf(call)

\* NakshatraEngine.getNakshatraInfo(lon)
GetNakshatraInfo ==
  /\ op = "start"
  /\ \E lon \in Longitudes :
       /\ op' = "getNakshatraInfo"
       /\ input' = <<lon>>
       /\ NakshatraCall(getNakshatraInfo(lon))
  /\ UNCHANGED <<results, profile, chain, subTimeline>>

\* the caller of calculateTimeline receives the results or the error
TimelineCall(call) == results' = ValueOf(call) /\ error' = ErrorOf(call)

\* DashaEngine.calculateTimeline(jd, maxLevels)
CalculateTimeline ==
  /\ op = "start"
  /\ \E jd \in BirthJDs, maxLevels \in Depths :
       /\ op' = "calculateTimeline"
       /\ input' = <<jd, maxLevels>>
       /\ TimelineCall(calculateTimeline(jd, maxLevels))
  /\ UNCHANGED <<profile, nakshatra, chain, subTimeline>>

\* DashaEngine.getActiveDashaAt(results, targetJD) on the timeline just built
GetActiveDashaAt ==
  /\ op = "calculateTimeline"
  /\ results # None
  /\ \E targetJD \in ProbeJDs(results[1]) :
       /\ op' = "getActiveDashaAt"
       /\ input' = <<targetJD>>
       /\ chain' = Some(getActiveDashaAt(results[1], targetJD))
  /\ UNCHANGED <<results, profile, nakshatra, error, subTimeline>>

\* the caller of getBirthProfile receives the profile or the error
ProfileCall(call) == profile' = ValueOf(call) /\ error' = ErrorOf(call)

\* VedicAstroAPI.getBirthProfile(birthData, depth)
GetBirthProfile ==
  /\ op = "start"
  /\ \E birthData \in BirthData, depth \in Depths :
       /\ op' = "getBirthProfile"
       /\ input' = <<birthData, depth>>
       /\ ProfileCall(getBirthProfile(birthData, depth))
  /\ UNCHANGED <<results, nakshatra, chain, subTimeline>>

\* VedicAstroAPI.getCurrentDashaChain(profile, targetDate) on the profile just built
GetCurrentDashaChain ==
  /\ op = "getBirthProfile"
  /\ profile # None
  /\ \E targetDate \in TargetDates :
       /\ op' = "getCurrentDashaChain"
       /\ input' = <<targetDate>>
       /\ chain' = Some(getCurrentDashaChain(profile[1], targetDate))
  /\ UNCHANGED <<results, profile, nakshatra, error, subTimeline>>

\* the sub-periods asked for directly: a parent of 1000 days from day 0 and from
\* J2000.0, under every lord, as the children of a level-1 node
ParentStarts == {Zero, FromInt(2451545)}
ParentDays == 1000

\* DashaEngine.calculateSubDashas(parentStart, parentEnd, 2, maxLevels, parentSeqIndex)
CalculateSubDashas ==
  /\ op = "start"
  /\ \E parentStart \in ParentStarts, maxLevels \in Depths, parentSeqIndex \in 0..8 :
       /\ op' = "calculateSubDashas"
       /\ input' = <<parentStart, Add(parentStart, FromInt(ParentDays)), 2, maxLevels, parentSeqIndex>>
       /\ subTimeline' = Some(calculateSubDashas(parentStart, Add(parentStart, FromInt(ParentDays)), 2, maxLevels, parentSeqIndex))
  /\ UNCHANGED <<results, profile, nakshatra, chain, error>>

Next ==
  \/ GetNakshatraInfo
  \/ CalculateTimeline
  \/ GetActiveDashaAt
  \/ GetBirthProfile
  \/ GetCurrentDashaChain
  \/ CalculateSubDashas

Spec == Init /\ [][Next]_vars

(***************************************************************************)
(* calculateTimeline on a corrupted mansion table.  The lord of the birth  *)
(* mansion reaches calculateTimeline only through getNakshatraInfo, and    *)
(* every lord of NAKSHATRA_DATA is in DASHA_SEQUENCE; here the steps after *)
(* the mansion lookup are given the mansion with its lord replaced.        *)
(***************************************************************************)
\* lords no entry of DASHA_SEQUENCE carries: an unknown one, and a known one
\* in another case (=== compares strings exactly)
AbsentLords == {"Pluto", "ketu"}

\* the object getNakshatraInfo returns when the mansion's entry carries the lord
withLord(nakshatraInfo, lord) == [nakshatraInfo EXCEPT !.lord = lord]

\* the lords tried for a mansion: its own and the absent ones
LordsFor(nakshatraCall) ==
  IF nakshatraCall.ok THEN {nakshatraCall.value.lord} \cup AbsentLords ELSE {}

\* the birth mansion of the table of birth instants
mansionCall(jd) == getNakshatraInfo(getSiderealLongitude(jd))

\* DashaEngine.calculateTimeline(jd, maxLevels) from Step 2 on
TimelineForLord ==
  /\ op = "start"
  /\ \E jd \in BirthJDs, maxLevels \in Depths :
       \E lord \in LordsFor(mansionCall(jd)) :
         /\ op' = "timelineFor"
         /\ input' = <<jd, maxLevels, lord>>
         /\ TimelineCall(timelineFor(jd, maxLevels, withLord(mansionCall(jd).value, lord)))
  /\ UNCHANGED <<profile, nakshatra, chain, subTimeline>>

NextLord == TimelineForLord

LordSpec == Init /\ [][NextLord]_vars

(***************************************************************************)
(* The properties.  Tolerances are measured on the exact values of the     *)
(* binary64 numbers compared: nothing is rounded in stating them.          *)
(***************************************************************************)
Tolerance == Dec(<<1>>, 6)

Within(a, b, tolerance) == Le(Abs(XSub(a, b)), tolerance)

\* every node of a tree
RECURSIVE NodesOf(_)
NodesOf(layer) == UNION {{layer[i]} \cup NodesOf(layer[i].subDashas) : i \in 1..Len(layer)}

\* the exact sum of the durations of the nodes of a layer from position i on
RECURSIVE DurationSum(_, _)
DurationSum(layer, i) ==
  IF i > Len(layer) THEN Zero ELSE XAdd(layer[i].durationDays, DurationSum(layer, i + 1))

\* the deepest level a tree holds nodes at
DeepestLevel(layer) ==
  CHOOSE l \in {n.level : n \in NodesOf(layer)} : \A n \in NodesOf(layer) : n.level <= l

\* the timeline calculateTimeline last returned
Timeline == IF results = None THEN <<>> ELSE results[1].timeline

\* its nodes that have children
ParentNodes == {n \in NodesOf(Timeline) : Len(n.subDashas) > 0}

\* t lies in the span [timeline[0].start, timeline[8].end) of a timeline
InSpan(layer, t) == Ge(t, layer[1].startJD) /\ Lt(t, layer[Len(layer)].endJD)

\* C1: in every tree calculateTimeline builds, the last (9th) child of every
\* node that has children ends exactly at the node's end, and the children's
\* durations sum exactly to the node's duration.
C1_LastChildEndsAtNodeEnd ==
  \A n \in ParentNodes :
    /\ n.subDashas[Len(n.subDashas)].endJD = n.endJD
    /\ DurationSum(n.subDashas, 1) = n.durationDays

\* C2: every node with children has exactly 9 of them, the first starts at the
\* node's start, each child ends where the next one starts, and every child is
\* one level below the node.
C2_ChildrenContiguous ==
  \A n \in ParentNodes :
    /\ Len(n.subDashas) = 9
    /\ n.subDashas[1].startJD = n.startJD
    /\ \A i \in 1..8 : n.subDashas[i].endJD = n.subDashas[i + 1].startJD
    /\ \A i \in 1..9 : n.subDashas[i].level = n.level + 1

\* calculateTimeline has built a tree of depth 2 or more
C2_Witness ==
  /\ op = "calculateTimeline"
  /\ input[2] >= 2
  /\ ParentNodes # {}

\* C3: for every t inside the top-level span, getActiveDashaAt returns a chain
\* with one entry for each level down to the deepest populated one, whose
\* level-1 entry's half-open interval contains t.
C3_ChainReachesDeepestLevel ==
  (op = "getActiveDashaAt" /\ InSpan(Timeline, input[1]))
    => /\ Len(chain[1]) = DeepestLevel(Timeline)
       /\ \A i \in 1..Len(chain[1]) : chain[1][i].level = i
       /\ chain[1] # <<>> => isActive(chain[1][1], input[1])

\* C4: calculateTimeline, called directly or through getBirthProfile, rejects
\* a depth below 1 or above the upper bound (6, the range the interface
\* documents) with an error and builds no timeline.
C4_DepthOutOfRangeRejected ==
  (op \in {"calculateTimeline", "getBirthProfile"} /\ (input[2] < 1 \/ input[2] > 6))
    => /\ error # "none"
       /\ results = None
       /\ profile = None

\* C5: for a profile getBirthProfile returned and a target date inside the
\* profile's top-level span, getCurrentDashaChain returns the non-empty chain
\* getActiveDashaAt finds in the profile's dasha timeline at that instant.
C5_ChainOfProfile ==
  (op = "getCurrentDashaChain" /\ InSpan(profile[1].dashaTimeline, targetJDOf(input[1])))
    => /\ chain[1] # <<>>
       /\ chain[1] = activeLoop(profile[1].dashaTimeline, targetJDOf(input[1]), <<>>)

\* C6: the first top-level node starts exactly at the birth instant, carries
\* the birth mansion's lord and has the duration
\* weight x yearLength x remainingFraction (within 1e-6 days), ending that
\* long after birth.
C6_FirstNodeIsBirthBalance ==
  results # None
    => /\ Timeline[1].startJD = results[1].birthJD
       /\ Timeline[1].lord = results[1].nakshatra.lord
       /\ Within(Timeline[1].durationDays,
                 XMul(XMul(FromInt(results[1].nakshatra.totalYears), SIDEREAL_YEAR),
                      results[1].nakshatra.remainingPercentage),
                 Tolerance)
       /\ Within(Timeline[1].endJD,
                 XAdd(results[1].birthJD, Timeline[1].durationDays), Tolerance)

\* calculateTimeline has returned a timeline for a birth part-way through a mansion
C6_Witness ==
  /\ op = "calculateTimeline"
  /\ results # None
  /\ Lt(Zero, results[1].nakshatra.elapsedPercentage)
  /\ Lt(Zero, Timeline[1].durationDays)

\* C7: for i in 1..8, top-level node i carries the lord at (startIndex + i) mod 9
\* of the cycle, has that lord's full duration weight x yearLength (within 1e-6
\* days) and starts exactly at the end of node i - 1; each of the 9 lords
\* appears exactly once.
C7_LaterNodesFullAndContiguous ==
  results # None
    => /\ Len(Timeline) = 9
       /\ \A i \in 1..8 :
            /\ Timeline[i + 1].lord
                 = planetAt((findIndex(results[1].nakshatra.lord) + i) % 9).lord
            /\ Within(Timeline[i + 1].durationDays,
                      XMul(FromInt(planetAt((findIndex(results[1].nakshatra.lord) + i) % 9).years),
                           SIDEREAL_YEAR),
                      Tolerance)
            /\ Timeline[i + 1].startJD = Timeline[i].endJD
       /\ Cardinality({Timeline[i].lord : i \in 1..9}) = 9

\* calculateTimeline has returned a timeline whose cycle wraps round the sequence
C7_Witness ==
  /\ op = "calculateTimeline"
  /\ results # None
  /\ findIndex(results[1].nakshatra.lord) > 0
  /\ Timeline[9].lord = planetAt(findIndex(results[1].nakshatra.lord) - 1).lord

\* C8: the durations of the 9 top-level nodes sum to
\* 120 x yearLength - elapsedFraction x (firstLabelWeight x yearLength)
\* (within 1e-6 days).
C8_TopLevelSum ==
  results # None
    => Within(DurationSum(Timeline, 1),
              XSub(XMul(FromInt(120), SIDEREAL_YEAR),
                   XMul(results[1].nakshatra.elapsedPercentage,
                        XMul(FromInt(results[1].nakshatra.totalYears), SIDEREAL_YEAR))),
              Tolerance)

\* calculateTimeline has returned a timeline for a birth a day or more into the
\* first period, so that the span is visibly short of the full cycle
C8_Witness ==
  /\ op = "calculateTimeline"
  /\ results # None
  /\ Lt(FromInt(1), XSub(XMul(FromInt(120), SIDEREAL_YEAR), DurationSum(Timeline, 1)))

\* C9: for a target before birth, or at or after the end of the 9th top-level
\* node, getActiveDashaAt returns the empty chain and raises no error.
C9_OutsideSpanEmptyChain ==
  (op = "getActiveDashaAt" /\ ~InSpan(Timeline, input[1]))
    => chain = Some(<<>>) /\ error = "none"

\* getActiveDashaAt has been asked for the instant the 9th top-level node ends at
C9_Witness ==
  /\ op = "getActiveDashaAt"
  /\ input[1] = Timeline[9].endJD
  /\ chain = Some(<<>>)

\* C10: for every sidereal longitude, getNakshatraInfo returns an index in
\* 0..26 (exactly 360 giving index 0), a pada in 1..4, and elapsed and
\* remaining percentages that sum to 1.
C10_NakshatraInfoInRange ==
  op = "getNakshatraInfo"
    => /\ error = "none"
       /\ nakshatra # None
       /\ nakshatra[1].index \in 0..26
       /\ input[1] = FromInt(360) => nakshatra[1].index = 0
       /\ nakshatra[1].pada \in 1..4
       /\ Add(nakshatra[1].elapsedPercentage, nakshatra[1].remainingPercentage) = FromInt(1)


\* C11: when the lord of the birth mansion is absent from DASHA_SEQUENCE (the
\* lookup gives no index), calculateTimeline throws an error and returns no
\* timeline: it never falls back to some position of the sequence.
C11_AbsentLordFails ==
  (op = "timelineFor" /\ findIndex(input[3]) = -1)
    => (results = None /\ error # "none")

\* calculateTimeline has been given a mansion whose lord is not in the sequence
C11_Witness ==
  /\ op = "timelineFor"
  /\ input[3] \in AbsentLords
  /\ findIndex(input[3]) = -1

\* the number of nodes of a tree
RECURSIVE NodeCount(_, _)
NodeCount(layer, i) ==
  IF i > Len(layer) THEN 0
  ELSE 1 + NodeCount(layer[i].subDashas, 1) + NodeCount(layer, i + 1)

\* 9 + 9^2 + ... + 9^D
RECURSIVE PowerSum(_)
PowerSum(D) == IF D <= 0 THEN 0 ELSE 9^D + PowerSum(D - 1)

\* a tree of depth D: 9 nodes at the top, 9 children under every node above
\* level D, none under the nodes of level D, and no node below level D
HasShape(layer, D) ==
  /\ Len(layer) = 9
  /\ \A n \in NodesOf(layer) :
       /\ n.level >= 1 /\ n.level <= D
       /\ n.level < D => Len(n.subDashas) = 9
       /\ n.level = D => n.subDashas = <<>>
  /\ NodeCount(layer, 1) = PowerSum(D)

\* C12: a tree built with depth D >= 1 has 9 top-level nodes, exactly 9
\* children under every node of a level below D, an empty child list at every
\* node of level D, no node of a level above D, and 9 + 9^2 + ... + 9^D nodes
\* in all; with D = 1 these are 9 top-level nodes without children.
C12_TreeShape ==
  (op = "calculateTimeline" /\ results # None /\ input[2] >= 1)
    => HasShape(Timeline, input[2])

\* calculateTimeline has built a tree of depth 2: 9 nodes with children and 81 leaves
C12_Witness ==
  /\ op = "calculateTimeline"
  /\ results # None
  /\ input[2] = 2
  /\ NodeCount(Timeline, 1) = 90

\* the sum of the years of the entries of the sequence from position i on
RECURSIVE YearsSum(_, _)
YearsSum(sequence, i) ==
  IF i > Len(sequence) THEN 0 ELSE sequence[i].years + YearsSum(sequence, i + 1)

\* mansion i (0-based) carries the lord and the years of the entry i mod 9 of
\* the sequence, and the lookup of its lord finds that entry
MansionFollowsSequence(i) ==
  /\ NAKSHATRA_DATA[i + 1].lord = DASHA_SEQUENCE[(i % 9) + 1].lord
  /\ NAKSHATRA_DATA[i + 1].years = DASHA_SEQUENCE[(i % 9) + 1].years
  /\ findIndex(NAKSHATRA_DATA[i + 1].lord) = i % 9

\* C13: each of the 27 mansions carries the lord and the years of
\* DASHA_SEQUENCE[i mod 9]; the 9 years of DASHA_SEQUENCE are positive integers
\* that sum to exactly 120; so the lookup of the birth lord in calculateTimeline
\* finds an entry for every mansion, and every call returns a timeline that
\* starts with the lord of the birth mansion.
C13_TablesConsistent ==
  /\ Len(NAKSHATRA_DATA) = 27
  /\ Len(DASHA_SEQUENCE) = 9
  /\ \A i \in 0..26 : MansionFollowsSequence(i)
  /\ \A k \in 1..9 : DASHA_SEQUENCE[k].years \in Nat \ {0}
  /\ YearsSum(DASHA_SEQUENCE, 1) = 120
  /\ op = "calculateTimeline"
       => /\ results # None
          /\ findIndex(results[1].nakshatra.lord) = results[1].nakshatra.index % 9
          /\ results[1].nakshatra.totalYears
               = DASHA_SEQUENCE[findIndex(results[1].nakshatra.lord) + 1].years

\* calculateTimeline has looked up the lord of the last mansion of the table
C13_Witness ==
  /\ op = "calculateTimeline"
  /\ results # None
  /\ results[1].nakshatra.index = 26
  /\ findIndex(results[1].nakshatra.lord) = 8

\* the array calculateSubDashas last returned to a direct call
SubTimeline == IF subTimeline = None THEN <<>> ELSE subTimeline[1]

\* its nodes that have children
SubParentNodes == {n \in NodesOf(SubTimeline) : Len(n.subDashas) > 0}

\* the durations of the spec's scenario C, as it prints them (4 decimals)
ScenarioC ==
  << Dec(<<58, 3333>>, 4), Dec(<<166, 6667>>, 4), FromInt(50), Dec(<<83, 3333>>, 4),
     Dec(<<58, 3333>>, 4), FromInt(150), Dec(<<133, 3333>>, 4), Dec(<<158, 3333>>, 4),
     Dec(<<141, 6667>>, 4) >>

\* half a unit of the fourth decimal
HalfUnit == Dec(<<5>>, 5)

\* child i (0..8) of a node of sequence index j and duration Delta carries the
\* lord of DASHA_SEQUENCE[(j + i) mod 9], and 120 times its duration is Delta
\* times that entry's years, to 120 times the tolerance
ChildFollows(child, i, j, Delta) ==
  /\ child.lord = DASHA_SEQUENCE[((j + i) % 9) + 1].lord
  /\ Le(Abs(XSub(XMul(child.durationDays, FromInt(120)),
                  XMul(Delta, FromInt(DASHA_SEQUENCE[((j + i) % 9) + 1].years)))),
        XMul(Tolerance, FromInt(120)))

ChildrenFollow(children, j, Delta) ==
  /\ Len(children) = 9
  /\ \A i \in 0..8 : ChildFollows(children[i + 1], i, j, Delta)

\* C14: the children of every node with children, of sequence index j and
\* duration Delta, carry the lords DASHA_SEQUENCE[(j + i) mod 9] for i = 0..8
\* (the first child the node's own lord) and last Delta x years / 120 days
\* (within 1e-6 days); a parent of 1000 days under the first lord has children
\* of 58.3333, 166.6667, 50.0, 83.3333, 58.3333, 150.0, 133.3333, 158.3333 and
\* 141.6667 days, to the four decimals given.
C14_ChildrenByWeight ==
  /\ \A n \in ParentNodes \cup SubParentNodes :
       ChildrenFollow(n.subDashas, findIndex(n.lord), n.durationDays)
  /\ op = "calculateSubDashas"
       => ChildrenFollow(SubTimeline, input[5], Sub(input[2], input[1]))
  /\ (op = "calculateSubDashas" /\ input[5] = 0 /\ Sub(input[2], input[1]) = FromInt(1000))
       => \A i \in 1..9 : Within(SubTimeline[i].durationDays, ScenarioC[i], HalfUnit)

\* calculateSubDashas has divided a parent of 1000 days under the first lord
C14_Witness ==
  /\ op = "calculateSubDashas"
  /\ input[5] = 0
  /\ Sub(input[2], input[1]) = FromInt(1000)
  /\ Len(SubTimeline) = 9

\* the chain getActiveDashaAt last returned
Chain == IF chain = None THEN <<>> ELSE chain[1]

\* the node of a layer an entry of the chain was copied from
SelectedIn(layer, entry) ==
  CHOOSE i \in 1..Len(layer) :
    /\ layer[i].lord = entry.lord
    /\ layer[i].startJD = entry.startJD
    /\ layer[i].endJD = entry.endJD

\* wherever two neighbours of a searched layer meet at t, the entry of the
\* chain for that layer is the later one, which starts at t
RECURSIVE LaterSiblingSelected(_, _, _, _)
LaterSiblingSelected(layer, t, activeChain, k) ==
  /\ \A i \in 1..(Len(layer) - 1) :
       (layer[i].endJD = t /\ layer[i + 1].startJD = t)
         => /\ k <= Len(activeChain)
            /\ activeChain[k].startJD = t
            /\ activeChain[k].lord = layer[i + 1].lord
  /\ k <= Len(activeChain)
       => LaterSiblingSelected(layer[SelectedIn(layer, activeChain[k])].subDashas, t,
                               activeChain, k + 1)

\* C16: the chain getActiveDashaAt returns has its entries at the levels 1, 2,
\* ..., k in this order; the half-open interval [startJD, endJD) of every entry
\* contains the target and lies within the interval of the entry before it; and
\* a target on the boundary two siblings share selects the sibling that starts
\* there, never the one that ends there.
C16_ChainNested ==
  op = "getActiveDashaAt"
    => /\ \A k \in 1..Len(Chain) :
            /\ Chain[k].level = k
            /\ Ge(input[1], Chain[k].startJD)
            /\ Lt(input[1], Chain[k].endJD)
       /\ \A k \in 2..Len(Chain) :
            /\ Ge(Chain[k].startJD, Chain[k - 1].startJD)
            /\ Le(Chain[k].endJD, Chain[k - 1].endJD)
       /\ LaterSiblingSelected(Timeline, input[1], Chain, 1)
====
